---- MODULE Spec2Model ----
(***************************************************************************)
(* Model of the stealth-address SDK: utils/utils.js (padHex, lengths),     *)
(* classes/KeyPair.js, classes/StealthKeyRegistry.js and the protocol      *)
(* functions generateKeyPair, prepareSend and IsUsersFunds.                *)
(*                                                                         *)
(* Scale.  The code works on secp256k1 with 32-byte words.  Here the curve *)
(* is y^2 = x^3 + 7 over GF(43), a group of prime order 31, and a "32-byte *)
(* word" is WordBytes bytes, so every length of the code is the same       *)
(* expression in WordBytes (66 = 2 + 2*32 becomes 2 + 2*WordBytes, ...).   *)
(*                                                                         *)
(* JavaScript values.  A string is a sequence of one-character strings;    *)
(* the value undefined is the one-token sequence Undefined.  A call's      *)
(* outcome is a record: [ok |-> TRUE, <field>] for a returned value and    *)
(* [ok |-> FALSE, err |-> kind] for a thrown error.                        *)
(*                                                                         *)
(* Libraries.  Every imported name stands for the library function of that *)
(* name (ethers isHexString / BigNumber / sha256 / hexZeroPad, elliptic    *)
(* ec, @noble/secp256k1 v2), modelled by what it computes.                 *)
(***************************************************************************)
EXTENDS Integers, Sequences, FiniteSets, TLC

(***************************************************************************)
(* Outcomes                                                                *)
(***************************************************************************)
Throw(e) == [ok |-> FALSE, err |-> e]
OkStr(s) == [ok |-> TRUE, str |-> s]
OkNum(n) == [ok |-> TRUE, num |-> n]
OkPoint(p) == [ok |-> TRUE, point |-> p]
OkKeyPair(k) == [ok |-> TRUE, kp |-> k]

\* error kinds, one per throw site of the code or per library failure
ErrPadNotHex == "Input is not a valid hex string"
ErrPadPrefix == "Input must not contain 0x prefix"
ErrKeyFormat == "Key must be in hex format with 0x prefix"
ErrKeyLength == "Key must be a 66 character private key, a 132 character public key"
ErrPayload == "Input must be of type EncryptedPayload to decrypt"
ErrNoPrivateKey == "KeyPair has no associated private key to decrypt with"
ErrInvalidPrivateKey == "Invalid private key"
ErrInvalidPublicKey == "Invalid public key"
ErrSignature == "Signature incorrectly generated or parsed"
ErrNotRegistered == "Address has not registered stealth keys"
ErrNoPublicKeys == "Could not retrieve public keys for recipient ID"
ErrStealthNoPrivate == "Stealth key pair must have a private key"
TypeError == "TypeError"
ReferenceError == "ReferenceError"
ErrEthersArgument == "ethers: invalid argument"
ErrElliptic == "elliptic: invalid point"
ErrNoble == "noble: invalid key or point"

(***************************************************************************)
(* Strings and hex                                                         *)
(***************************************************************************)
Undefined == <<"undefined">>

WordBytes == 2

\* hex characters of one word
WordChars == 2 * WordBytes

HexDigits == <<"0", "1", "2", "3", "4", "5", "6", "7",
               "8", "9", "a", "b", "c", "d", "e", "f">>

IsHexChar(c) == \E i \in 1..16 : HexDigits[i] = c

DigitVal(c) == (CHOOSE i \in 1..16 : HexDigits[i] = c) - 1

IsString(v) == v # Undefined

\* String.prototype.slice(a, b) for 0 <= a, with b clamped to the length
slice(s, a, b) ==
  LET hi == IF b > Len(s) THEN Len(s) ELSE b
  IN  IF a >= hi THEN <<>> ELSE SubSeq(s, a + 1, hi)

\* String.prototype.slice(a) to the end; a negative a counts from the end
sliceFrom(s, a) ==
  LET lo == IF a < 0 THEN (IF Len(s) + a < 0 THEN 0 ELSE Len(s) + a) ELSE a
  IN  slice(s, lo, Len(s))

Ox == <<"0", "x">>

RECURSIVE Zeros(_)
Zeros(k) == IF k <= 0 THEN <<>> ELSE <<"0">> \o Zeros(k - 1)

\* String.prototype.padStart(n, 0): pads, never truncates
padStart(s, n) == Zeros(n - Len(s)) \o s

AllHex(s) == \A i \in 1..Len(s) : IsHexChar(s[i])

\* ethers isHexString(value): a string matching /^0x[0-9A-Fa-f]*$/
isHexString(v) ==
  /\ IsString(v)
  /\ Len(v) >= 2
  /\ slice(v, 0, 2) = Ox
  /\ AllHex(sliceFrom(v, 2))

RECURSIVE HexVal(_)
\* the number a string of hex digits denotes
HexVal(s) ==
  IF Len(s) = 0 THEN 0
  ELSE 16 * HexVal(SubSeq(s, 1, Len(s) - 1)) + DigitVal(s[Len(s)])

RECURSIVE MinHex(_)
\* BN.toString("hex"): the digits without leading zeros, "0" for zero
MinHex(n) ==
  IF n < 16 THEN <<HexDigits[n + 1]>>
  ELSE MinHex(n \div 16) \o <<HexDigits[(n % 16) + 1]>>

\* BigNumber.toHexString(): 0x and a whole number of bytes
toHexString(n) ==
  LET d == MinHex(n)
  IN  Ox \o (IF Len(d) % 2 = 1 THEN <<"0">> \o d ELSE d)

\* hexZeroPad(value, length): throws when value is longer than length bytes
hexZeroPad(v, bytes) ==
  IF ~isHexString(v) \/ Len(v) > 2 + 2 * bytes
  THEN Throw(ErrEthersArgument)
  ELSE OkStr(Ox \o padStart(sliceFrom(v, 2), 2 * bytes))

\* BigNumber.from(value) for a hex string
BigNumberFrom(v) ==
  IF isHexString(v) THEN OkNum(HexVal(sliceFrom(v, 2)))
  ELSE Throw(ErrEthersArgument)

\* the 0x-prefixed hex string of a word
WordHex(n) == Ox \o padStart(MinHex(n), WordChars)

WordMod == 16 ^ WordChars

RECURSIVE BitXor(_, _)
\* BigNumber.xor
BitXor(a, b) ==
  IF a = 0 THEN b
  ELSE IF b = 0 THEN a
  ELSE 2 * BitXor(a \div 2, b \div 2) + (((a % 2) + (b % 2)) % 2)


(***************************************************************************)
(* Hashes.  SHA-256 is a fixed function from byte strings to words, here   *)
(* a multiplicative digest of the hex digits; keccak256 feeds only the     *)
(* address, which is compared for equality, and is an injective digit      *)
(* substitution read backwards.                                            *)
(***************************************************************************)
RECURSIVE Digest(_, _)
Digest(s, h) ==
  IF Len(s) = 0 THEN h
  ELSE Digest(Tail(s), (h * 33 + DigitVal(Head(s)) + 1) % WordMod)

\* ethers sha256(data): data must be a 0x hex string of whole bytes
sha256(v) ==
  IF ~isHexString(v) \/ Len(v) % 2 = 1 THEN Throw(ErrEthersArgument)
  ELSE OkStr(WordHex(Digest(sliceFrom(v, 2), 5381 % WordMod)))

RECURSIVE keccak256(_)
keccak256(s) ==
  IF Len(s) = 0 THEN <<>>
  ELSE keccak256(Tail(s)) \o <<HexDigits[((7 * DigitVal(Head(s)) + 3) % 16) + 1]>>

(***************************************************************************)
(* The curve: const ec = new EC("secp256k1")                               *)
(***************************************************************************)
CurveP == 43
CurveN == 31
CurveB == 7

Infinity == [inf |-> TRUE, x |-> 0, y |-> 0]
Affine(px, py) == [inf |-> FALSE, x |-> px, y |-> py]

\* ec.g, the generator
CurveG == Affine(2, 12)

RECURSIVE ModPow(_, _)
ModPow(a, e) ==
  IF e = 0 THEN 1
  ELSE LET h == ModPow(a, e \div 2)
       IN  IF e % 2 = 0 THEN (h * h) % CurveP ELSE (((h * h) % CurveP) * a) % CurveP

ModInv(a) == ModPow(a % CurveP, CurveP - 2)

OnCurve(pt) ==
  \/ pt.inf
  \/ /\ pt.x \in 0..(CurveP - 1)
     /\ pt.y \in 0..(CurveP - 1)
     /\ (pt.y * pt.y) % CurveP = (pt.x * pt.x * pt.x + CurveB) % CurveP

PointNeg(pt) == IF pt.inf THEN pt ELSE Affine(pt.x, (CurveP - pt.y) % CurveP)

PointAdd(a, b) ==
  IF a.inf THEN b
  ELSE IF b.inf THEN a
  ELSE IF a.x = b.x /\ (a.y + b.y) % CurveP = 0 THEN Infinity
  ELSE LET l == IF a.x = b.x
                THEN (3 * a.x * a.x * ModInv(2 * a.y)) % CurveP
                ELSE ((b.y - a.y + CurveP) * ModInv(b.x - a.x + CurveP)) % CurveP
           x3 == (l * l + 2 * CurveP - a.x - b.x) % CurveP
           y3 == (l * (a.x - x3 + CurveP) + CurveP - a.y) % CurveP
       IN  Affine(x3, y3)

RECURSIVE PointMul(_, _)
\* point.mul(k): double and add
PointMul(pt, k) ==
  IF k = 0 THEN Infinity
  ELSE LET h == PointMul(pt, k \div 2)
           d == PointAdd(h, h)
       IN  IF k % 2 = 1 THEN PointAdd(d, pt) ELSE d

\* point.getX().toString("hex") / getY: reading a coordinate of the point at
\* infinity dereferences null
CoordHex(pt, c) ==
  IF pt.inf THEN Throw(TypeError)
  ELSE OkStr(MinHex(IF c = "x" THEN pt.x ELSE pt.y))

\* point.encode("hex", false): 04, x and y, each padded to the field length
EncodeUncompressed(pt) ==
  <<"0", "4">> \o padStart(MinHex(pt.x), WordChars) \o padStart(MinHex(pt.y), WordChars)

\* getPublic(true, "hex"): 02 for an even y, 03 for an odd y, and x
EncodeCompressed(pt) ==
  <<"0", IF pt.y % 2 = 0 THEN "2" ELSE "3">> \o padStart(MinHex(pt.x), WordChars)

\* curve.pointFromX(x, odd): x is reduced mod p; throws when x^3 + 7 has no root
pointFromX(xv, odd) ==
  LET x == xv % CurveP
      rhs == (x * x * x + CurveB) % CurveP
      roots == {y \in 0..(CurveP - 1) : (y * y) % CurveP = rhs}
  IN  IF roots = {} THEN Throw(ErrElliptic)
      ELSE LET y == CHOOSE r \in roots : (r % 2 = 1) = odd
           IN  OkPoint(Affine(x, y))

\* curve.decodePoint(bytes): 04 x y is taken as given (no curve check),
\* 02/03 x is solved for y, anything else is an unknown format
decodePoint(h) ==
  IF ~AllHex(h) \/ Len(h) < 2 THEN Throw(ErrElliptic)
  ELSE IF slice(h, 0, 2) = <<"0", "4">> /\ Len(h) = 2 + 2 * WordChars
       THEN OkPoint(Affine(HexVal(slice(h, 2, 2 + WordChars)) % CurveP,
                           HexVal(sliceFrom(h, 2 + WordChars)) % CurveP))
  ELSE IF slice(h, 0, 2) \in {<<"0", "2">>, <<"0", "3">>} /\ Len(h) = 2 + WordChars
       THEN pointFromX(HexVal(sliceFrom(h, 2)), h[2] = "3")
  ELSE Throw(ErrElliptic)

(***************************************************************************)
(* utils/utils.js                                                          *)
(***************************************************************************)
\* padHex(hex, bytes = 32)
padHex(hex, bytes) ==
  IF ~isHexString(hex) THEN Throw(ErrPadNotHex)
  ELSE IF slice(hex, 0, 2) = Ox THEN Throw(ErrPadPrefix)
  ELSE OkStr(padStart(hex, bytes * 2))

\* lengths.privateKey (66) and lengths.publicKey (132)
lengths_privateKey == 2 + WordChars
lengths_publicKey == 4 + 2 * WordChars

(***************************************************************************)
(* classes/RandomNumber.js is not part of the sources: a RandomNumber is   *)
(* a word with its 0x-padded form asHex and the unprefixed asHexSlim.      *)
(* An argument that is "RandomNumber or hex string" is the record          *)
(* [rn |-> TRUE, hex |-> asHex] or [rn |-> FALSE, hex |-> the JS value].   *)
(***************************************************************************)
RandomNumber(v) == [rn |-> TRUE, hex |-> WordHex(v)]
Plain(v) == [rn |-> FALSE, hex |-> v]

asHex(number) == number.hex
asHexSlim(number) == sliceFrom(number.hex, 2)

(***************************************************************************)
(* classes/KeyPair.js.  A KeyPair is [privateKeyHex, publicKeyHex];        *)
(* privateKeyHex is Undefined on an instance built from a public key, and  *)
(* privateKeyHexSlim / privateKeyBN / privateKeyEC are forms of it.        *)
(* Then(r, F) continues with F(r) unless r is a thrown error, which it     *)
(* propagates: the statements of a method are chained with it.             *)
(***************************************************************************)
Then(r, F(_)) == IF r.ok THEN F(r) ELSE r

Falsy(v) == v = Undefined \/ v = <<>>

\* padHex(getX().toString("hex")), padHex(getY().toString("hex")) and the
\* template `0x04${x}${y}` (constructor lines 47-51, mulPublicKey lines 241-244)
UncompressedHex(publicKey) ==
  Then(CoordHex(publicKey, "x"), LAMBDA gx :
  Then(padHex(gx.str, WordBytes), LAMBDA x :
  Then(CoordHex(publicKey, "y"), LAMBDA gy :
  Then(padHex(gy.str, WordBytes), LAMBDA y :
  OkStr(Ox \o <<"0", "4">> \o x.str \o y.str)))))

\* a constructor whose public-key branch also keeps a word of the key as the
\* private key
KeyPairNewKeepsKey(key) ==
  IF ~isHexString(key) THEN Throw(ErrKeyFormat)
  ELSE IF Len(key) = lengths_privateKey
  THEN Then(UncompressedHex(PointMul(CurveG, HexVal(sliceFrom(key, 2)))), LAMBDA pub :
       OkKeyPair([privateKeyHex |-> key, publicKeyHex |-> pub.str]))
  ELSE IF Len(key) = lengths_publicKey
  THEN OkKeyPair([privateKeyHex |-> Ox \o slice(key, 4, 4 + WordChars),
                  publicKeyHex |-> key])
  ELSE Throw(ErrKeyLength)

\* constructor(key)
KeyPairNew(key) ==
  IF ~isHexString(key) THEN Throw(ErrKeyFormat)
  ELSE IF Len(key) = lengths_privateKey
  THEN Then(UncompressedHex(PointMul(CurveG, HexVal(sliceFrom(key, 2)))), LAMBDA pub :
       OkKeyPair([privateKeyHex |-> key, publicKeyHex |-> pub.str]))
  ELSE IF Len(key) = lengths_publicKey
  THEN OkKeyPair([privateKeyHex |-> Undefined, publicKeyHex |-> key])
  ELSE Throw(ErrKeyLength)

\* get publicKeyHexSlim
publicKeyHexSlim(kp) == sliceFrom(kp.publicKeyHex, 4)

\* get publicKeyHexCoordsSlim
publicKeyHexCoordsSlim(kp) ==
  Then(padHex(slice(publicKeyHexSlim(kp), 0, WordChars), WordBytes), LAMBDA x :
  Then(padHex(sliceFrom(publicKeyHexSlim(kp), WordChars), WordBytes), LAMBDA y :
  [ok |-> TRUE, x |-> x.str, y |-> y.str]))

\* get publicKeyEC: ec.keyFromPublic({x, y}) takes the coordinates as given
publicKeyEC(kp) ==
  Then(publicKeyHexCoordsSlim(kp), LAMBDA c :
  OkPoint(Affine(HexVal(c.x) % CurveP, HexVal(c.y) % CurveP)))

\* get address: the hash of the public key without 0x04
address(kp) == Ox \o keccak256(publicKeyHexSlim(kp))

\* `0${Number(prefix)}`, and 02 when the prefix is omitted (prefix 0)
PrefixHex(prefix) ==
  IF prefix = 0 THEN <<"0", "2">>
  ELSE IF prefix < 10 THEN <<"0", HexDigits[prefix + 1]>>
  ELSE <<"0", "1", "0">>

\* static getUncompressedFromX(pkx, prefix); prefix 0 stands for an omitted one
getUncompressedFromX(pkx, prefix) ==
  Then(BigNumberFrom(pkx), LAMBDA n :
  Then(hexZeroPad(toHexString(n.num), WordBytes), LAMBDA padded :
  Then(decodePoint(PrefixHex(prefix) \o sliceFrom(padded.str, 2)), LAMBDA point :
  OkStr(Ox \o EncodeUncompressed(point.point)))))

\* a compressPublicKey that drops the parity of y and always answers prefix 2
compressPublicKeyEven(uncompressedpublicKey) ==
  IF ~IsString(uncompressedpublicKey) THEN Throw(TypeError)
  ELSE Then(decodePoint(sliceFrom(uncompressedpublicKey, 2)), LAMBDA publicKey :
       [ok |-> TRUE, prefix |-> 2,
        pubKeyXCoordinate |-> Ox \o padStart(MinHex(publicKey.point.x), WordChars)])

\* the prefix digit and the x of a compressed encoding (lines 174-177)
CompressedParts(compressedPublicKeyHex) ==
  [ok |-> TRUE,
   prefix |-> DigitVal(compressedPublicKeyHex[2]),
   pubKeyXCoordinate |-> Ox \o sliceFrom(compressedPublicKeyHex, 2)]

\* static compressPublicKey(uncompressedpublicKey)
compressPublicKey(uncompressedpublicKey) ==
  IF ~IsString(uncompressedpublicKey) THEN Throw(TypeError)
  ELSE Then(decodePoint(sliceFrom(uncompressedpublicKey, 2)), LAMBDA publicKey :
       CompressedParts(EncodeCompressed(publicKey.point)))

\* the point a 04-encoded key denotes, coordinates as written
PointOfHex(pubB) ==
  Affine(HexVal(slice(pubB, 2, 2 + WordChars)), HexVal(sliceFrom(pubB, 2 + WordChars)))

\* noble getSharedSecret(privA, pubB, true): the scalar must lie in [1, n-1], the
\* point must be a 04-encoded point of the curve; the result is 02/03 and x
nobleGetSharedSecret(privA, pubB) ==
  IF HexVal(privA) < 1 \/ HexVal(privA) >= CurveN THEN Throw(ErrNoble)
  ELSE IF \/ slice(pubB, 0, 2) # <<"0", "4">>
          \/ PointOfHex(pubB).x = 0
          \/ PointOfHex(pubB).y = 0
          \/ ~OnCurve(PointOfHex(pubB))
  THEN Throw(ErrNoble)
  ELSE OkStr(EncodeCompressed(PointMul(PointOfHex(pubB), HexVal(privA))))

\* a getSharedSecret that hashes the compressed point with its 02/03 prefix
getSharedSecretWithPrefix(privateKey, publicKey) ==
  IF ~IsString(privateKey) \/ ~IsString(publicKey) THEN Throw(TypeError)
  ELSE IF Len(privateKey) # lengths_privateKey \/ ~isHexString(privateKey)
  THEN Throw(ErrInvalidPrivateKey)
  ELSE IF Len(publicKey) # lengths_publicKey \/ ~isHexString(publicKey)
  THEN Throw(ErrInvalidPublicKey)
  ELSE Then(nobleGetSharedSecret(sliceFrom(privateKey, 2), sliceFrom(publicKey, 2)),
            LAMBDA sharedSecret : sha256(Ox \o sharedSecret.str))

\* getSharedSecret(privateKey, publicKey)
getSharedSecret(privateKey, publicKey) ==
  IF ~IsString(privateKey) \/ ~IsString(publicKey) THEN Throw(TypeError)
  ELSE IF Len(privateKey) # lengths_privateKey \/ ~isHexString(privateKey)
  THEN Throw(ErrInvalidPrivateKey)
  ELSE IF Len(publicKey) # lengths_publicKey \/ ~isHexString(publicKey)
  THEN Throw(ErrInvalidPublicKey)
  ELSE Then(nobleGetSharedSecret(sliceFrom(privateKey, 2), sliceFrom(publicKey, 2)),
            LAMBDA sharedSecret : sha256(Ox \o sliceFrom(sharedSecret.str, 2)))

\* ProjectivePoint.toHex(): @noble/secp256k1 v2 encodes compressed by default
nobleToHex(pt) == EncodeCompressed(pt)

\* BigNumber.from(a).xor(b) of two 0x hex strings, as hexZeroPad(..., 32)
XorHex(a, b) ==
  hexZeroPad(toHexString(BitXor(HexVal(sliceFrom(a, 2)), HexVal(sliceFrom(b, 2)))),
             WordBytes)

\* encrypt(number), with the scalar utils.randomPrivateKey() drew
encrypt(kp, number, ephemeralPrivateKey) ==
  Then(getSharedSecret(WordHex(ephemeralPrivateKey), kp.publicKeyHex), LAMBDA sharedSecret :
  IF ~number.rn THEN Throw(ErrEthersArgument)
  ELSE Then(XorHex(asHex(number), sharedSecret.str), LAMBDA ciphertext :
       [ok |-> TRUE,
        ephemeralPublicKey |-> Ox \o nobleToHex(PointMul(CurveG, ephemeralPrivateKey)),
        ciphertext |-> ciphertext.str]))

\* decrypt(output); output is [ephemeralPublicKey, ciphertext]
decrypt(kp, output) ==
  IF Falsy(output.ephemeralPublicKey) \/ Falsy(output.ciphertext) THEN Throw(ErrPayload)
  ELSE IF Falsy(kp.privateKeyHex) THEN Throw(ErrNoPrivateKey)
  ELSE Then(getSharedSecret(kp.privateKeyHex, output.ephemeralPublicKey), LAMBDA sharedSecret :
       Then(BigNumberFrom(output.ciphertext), LAMBDA c :
       XorHex(output.ciphertext, sharedSecret.str)))

\* the scalar an argument of mulPublicKey / mulPrivateKey denotes:
\* utils.isHexString(value) ? value : value.asHex
MulNumber(value) ==
  IF ~value.rn /\ isHexString(value.hex) THEN OkStr(value.hex)
  ELSE IF value.rn THEN OkStr(asHex(value))
  ELSE IF value.hex = Undefined THEN Throw(TypeError)
  ELSE OkStr(Undefined)

\* new BN(number, 16) of point.mul: an undefined number counts as 0
MulScalar(number) == IF number = Undefined THEN 0 ELSE HexVal(sliceFrom(number, 2))

\* mulPublicKey(value)
mulPublicKey(kp, value) ==
  Then(MulNumber(value), LAMBDA number :
  Then(publicKeyEC(kp), LAMBDA ecKey :
  Then(UncompressedHex(PointMul(ecKey.point, MulScalar(number.str))), LAMBDA pub :
  KeyPairNew(pub.str))))

\* mulPrivateKey(value): this.privateKeyBN is undefined on a public-only instance
mulPrivateKey(kp, value) ==
  Then(MulNumber(value), LAMBDA number :
  IF kp.privateKeyHex = Undefined THEN Throw(TypeError)
  ELSE IF number.str = Undefined THEN Throw(ErrEthersArgument)
  ELSE Then(padHex(sliceFrom(toHexString((HexVal(sliceFrom(kp.privateKeyHex, 2))
                                          * HexVal(sliceFrom(number.str, 2))) % CurveN), 2),
                   WordBytes), LAMBDA privateKey :
       KeyPairNew(Ox \o privateKey.str)))

\* static computeStealthPrivateKey(spendingPrivateKey, randomNumber)
computeStealthPrivateKey(spendingPrivateKey, randomNumber) ==
  Then(KeyPairNew(spendingPrivateKey), LAMBDA spendingPrivateKeyPair :
  Then(mulPrivateKey(spendingPrivateKeyPair.kp, randomNumber), LAMBDA stealthFromPrivate :
  IF Falsy(stealthFromPrivate.kp.privateKeyHex) THEN Throw(ErrStealthNoPrivate)
  ELSE OkStr(stealthFromPrivate.kp.privateKeyHex)))

(***************************************************************************)
(* utils/Transaction.js: generateKeyPair                                   *)
(***************************************************************************)
\* const length = 64: the hex characters of one 32-byte chunk
length == WordChars

\* lines 10-12: the chunks r, s and v of the signature
SigR(signature) == slice(signature, 2, 2 + length)
SigS(signature) == slice(signature, 2 + length, 2 + length + length)
\* a v that is whatever follows s
SigVRest(signature) == sliceFrom(signature, 2 + length + length)

SigV(signature) == sliceFrom(signature, Len(signature) - 2)

\* generateKeyPair(signature)
generateKeyPair(signature) ==
  IF ~IsString(signature) THEN Throw(TypeError)
  ELSE IF Ox \o SigR(signature) \o SigS(signature) \o SigV(signature) # signature
  THEN Throw(ErrSignature)
  ELSE Then(sha256(Ox \o SigR(signature)), LAMBDA spendingPrivateKey :
       Then(sha256(Ox \o SigS(signature)), LAMBDA viewingPrivateKey :
       Then(KeyPairNew(spendingPrivateKey.str), LAMBDA spendingKeyPair :
       Then(KeyPairNew(viewingPrivateKey.str), LAMBDA viewingKeyPair :
       [ok |-> TRUE,
        spendingKeyPair |-> spendingKeyPair.kp,
        viewingKeyPair |-> viewingKeyPair.kp]))))

(***************************************************************************)
(* classes/StealthKeyRegistry.js.  The registry contract keeps, for each   *)
(* account, four uint256 values, all zero until the account registers.     *)
(***************************************************************************)
NoKeys ==
  [spendingPubKeyPrefix |-> 0, spendingPubKey |-> 0,
   viewingPubKeyPrefix |-> 0, viewingPubKey |-> 0]

\* constructor(signerOrProvider): only registers the getNetwork().then callback;
\* this._registry is not assigned by the constructor itself
StealthKeyRegistryNew == [assigned |-> FALSE, pending |-> TRUE]

\* no registry object yet
NoRegistry == [assigned |-> FALSE, pending |-> FALSE]

\* the getNetwork().then callback: network.id.toString() raises when the network
\* object carries no id, and the handle is then never assigned
NetworkResolved(registry, hasId) == [assigned |-> hasId, pending |-> FALSE]

\* getStealthKeys(account): reading this._registry.stealthKeys raises a TypeError
\* while the handle is unassigned; keys is what the contract answers
getStealthKeys(registry, keys) ==
  IF ~registry.assigned THEN Throw(TypeError)
  ELSE IF \/ keys.spendingPubKeyPrefix = 0
          \/ keys.spendingPubKey = 0
          \/ keys.viewingPubKeyPrefix = 0
          \/ keys.viewingPubKey = 0
  THEN Throw(ErrNotRegistered)
  ELSE Then(getUncompressedFromX(toHexString(keys.spendingPubKey), keys.spendingPubKeyPrefix),
            LAMBDA spendingPublicKey :
       Then(getUncompressedFromX(toHexString(keys.viewingPubKey), keys.viewingPubKeyPrefix),
            LAMBDA viewingPublicKey :
       [ok |-> TRUE,
        spendingPublicKey |-> spendingPublicKey.str,
        viewingPublicKey |-> viewingPublicKey.str]))

\* setSmartStealthKeys(spendingPublicKey, viewingPublicKey)
setSmartStealthKeys(spendingPublicKey, viewingPublicKey) ==
  Then(compressPublicKey(spendingPublicKey), LAMBDA sp :
  Then(compressPublicKey(viewingPublicKey), LAMBDA vp :
  [ok |-> TRUE,
   spendingPrefix |-> sp.prefix, spendingPubKeyX |-> sp.pubKeyXCoordinate,
   viewingPrefix |-> vp.prefix, viewingPubKeyX |-> vp.pubKeyXCoordinate]))

(***************************************************************************)
(* utils/Transaction.js: prepareSend and IsUsersFunds, cut at their awaits *)
(***************************************************************************)

\* prepareSend lines 33-56, resumed with the lookup's outcome, the random number
\* and the ephemeral scalar drawn
prepareSendDerive(lookup, r, e) ==
  Then(lookup, LAMBDA keys :
  IF Falsy(keys.spendingPublicKey) \/ Falsy(keys.viewingPublicKey)
  THEN Throw(ErrNoPublicKeys)
  ELSE Then(KeyPairNew(keys.spendingPublicKey), LAMBDA spendingKeyPair :
       Then(KeyPairNew(keys.viewingPublicKey), LAMBDA viewingKeyPair :
       Then(encrypt(viewingKeyPair.kp, RandomNumber(r), e), LAMBDA encrypted :
       Then(compressPublicKey(encrypted.ephemeralPublicKey), LAMBDA compressed :
       Then(mulPublicKey(spendingKeyPair.kp, RandomNumber(r)), LAMBDA stealthKeyPair :
       [ok |-> TRUE,
        stealthKeyPair |-> stealthKeyPair.kp,
        pubKeyXCoordinate |-> compressed.pubKeyXCoordinate,
        encrypted |-> [ephemeralPublicKey |-> encrypted.ephemeralPublicKey,
                       ciphertext |-> encrypted.ciphertext]]))))))

\* prepareSend run without interleaving on the registry contents keys, drawing
\* the random number r and the ephemeral scalar e
prepareSend(keys, r, e) ==
  prepareSendDerive(getStealthKeys(StealthKeyRegistryNew, keys), r, e)

\* an announcement is [present, pkx, ciphertext, receiver]; present = FALSE is a
\* missing (undefined) announcement
NoAnnouncement ==
  [present |-> FALSE, pkx |-> Undefined, ciphertext |-> Undefined, receiver |-> Undefined]

\* IsUsersFunds lines 66-71: up to the call of viewkey.decrypt
IsUsersFundsViewKey(announcement, viewingPrivateKey) ==
  IF ~announcement.present THEN Throw(TypeError)
  ELSE Then(getUncompressedFromX(announcement.pkx, 0), LAMBDA uncompressedPubKey :
       Then(KeyPairNew(viewingPrivateKey), LAMBDA viewkey :
       [ok |-> TRUE, viewkey |-> viewkey.kp,
        payload |-> [ephemeralPublicKey |-> uncompressedPubKey.str,
                     ciphertext |-> announcement.ciphertext]]))

\* IsUsersFunds lines 74-75: as in prepareSend, the registry is built and read
\* in one synchronous run
IsUsersFundsLookup(keys) == getStealthKeys(StealthKeyRegistryNew, keys)

\* IsUsersFunds lines 78-91: the result literal names businessTokenAddress, which
\* no scope declares, so building it raises a ReferenceError
IsUsersFundsResult(announcement, randomNumber, lookup) ==
  Then(lookup, LAMBDA keys :
  Then(KeyPairNew(keys.spendingPublicKey), LAMBDA spendingkey :
  Then(mulPublicKey(spendingkey.kp, Plain(randomNumber)), LAMBDA stealth :
  Throw(ReferenceError))))

\* IsUsersFunds lines 65-91 run without interleaving on the registry contents
\* keys of the sender
IsUsersFundsBody(announcement, viewingPrivateKey, keys) ==
  Then(IsUsersFundsViewKey(announcement, viewingPrivateKey), LAMBDA vk :
  Then(decrypt(vk.viewkey, vk.payload), LAMBDA randomNumber :
  IsUsersFundsResult(announcement, randomNumber.str,
                     getStealthKeys(StealthKeyRegistryNew, keys))))

\* an IsUsersFunds without its catch clause
IsUsersFundsRethrow(outcome) == outcome

\* IsUsersFunds lines 92-102: the catch clause
IsUsersFundsCatch(outcome) ==
  IF outcome.ok THEN outcome
  ELSE [ok |-> TRUE, isForUser |-> FALSE, randomNumber |-> <<>>,
        ephemeralPubkey |-> <<>>, stealthAddress |-> <<>>]

\* IsUsersFunds run without interleaving
IsUsersFunds(announcement, viewingPrivateKey, keys) ==
  IsUsersFundsCatch(IsUsersFundsBody(announcement, viewingPrivateKey, keys))

(***************************************************************************)
(* State                                                                   *)
(***************************************************************************)
VARIABLES
  chain,   \* the registry contract: account -> its four stored values
  calls,   \* the prepareSend / IsUsersFunds calls in flight or completed
  kp,      \* the KeyPair instance at hand
  op,      \* the last operation applied, with its arguments
  res      \* its outcome

vars == <<chain, calls, kp, op, res>>

Pending(name) == op.name = name /\ ~op.done

Applied(name) == op.name = name /\ op.done

\* a prepareSend that reads through one registry object kept for all calls: the
\* handle is set as soon as the network callback of any call has set it
prepareSendLookupShared(keys) ==
  getStealthKeys(IF \E d \in DOMAIN calls : calls[d].registry.assigned
                 THEN [assigned |-> TRUE, pending |-> FALSE]
                 ELSE StealthKeyRegistryNew, keys)

\* prepareSend lines 28-32: the registry is built and getStealthKeys is called in
\* the same synchronous run
prepareSendLookup(keys) == getStealthKeys(StealthKeyRegistryNew, keys)

(***************************************************************************)
(* Bounds and inputs                                                       *)
(***************************************************************************)
MaxKey == 1
MaxEph == 1
MaxScalar == 2
MaxPoint == 2
MaxSigBody == 11
MaxPadLen == 5

Identities == {"A", "B"}
Calls == {"c1"}
RandInputs == {3, 4660}

PublicKeyOf(k) == Ox \o EncodeUncompressed(PointMul(CurveG, k))

PublicOnly(publicKeyHex) == [privateKeyHex |-> Undefined, publicKeyHex |-> publicKeyHex]

\* no instance constructed yet
NoKeyPair == PublicOnly(Undefined)

IdleCall ==
  [kind |-> "none", pc |-> "idle", account |-> "A", keys |-> NoKeys,
   announcement |-> NoAnnouncement, viewingPrivateKey |-> Undefined,
   registry |-> NoRegistry, awaited |-> Throw("none"),
   randomNumber |-> Undefined, draws |-> <<0, 0>>, result |-> Throw("none")]

Registered(keys) ==
  /\ keys.spendingPubKeyPrefix # 0
  /\ keys.spendingPubKey # 0
  /\ keys.viewingPubKeyPrefix # 0
  /\ keys.viewingPubKey # 0

\* the announcement a sender publishes for the keys stored for a recipient, with
\* random number r and ephemeral scalar e: the ephemeral x, r xor the shared
\* secret, and the address of r * spendingPublicKey
RefAnnouncement(keys, r, e) ==
  LET v == getUncompressedFromX(toHexString(keys.viewingPubKey), keys.viewingPubKeyPrefix)
      sp == getUncompressedFromX(toHexString(keys.spendingPubKey), keys.spendingPubKeyPrefix)
      enc == encrypt(PublicOnly(v.str), RandomNumber(r), e)
      spt == decodePoint(sliceFrom(sp.str, 2)).point
  IN  [present |-> TRUE,
       pkx |-> compressPublicKey(enc.ephemeralPublicKey).pubKeyXCoordinate,
       ciphertext |-> enc.ciphertext,
       receiver |-> address(PublicOnly(Ox \o EncodeUncompressed(PointMul(spt, r))))]

\* the ephemeral scalars of the announcements scanned
AnnouncedEph == {1}

\* an announcement with the lowest bit of its ciphertext flipped
Tampered(announcement) ==
  [announcement EXCEPT !.ciphertext = XorHex(announcement.ciphertext, WordHex(1)).str]

\* the announcements made for the keys now stored
MadeAnnouncements ==
  {RefAnnouncement(chain[a], r, e) :
     a \in {i \in Identities : Registered(chain[i])}, r \in RandInputs, e \in AnnouncedEph}

AnnouncementInputs ==
  MadeAnnouncements \cup {Tampered(ann) : ann \in MadeAnnouncements}
  \cup {NoAnnouncement,
        [present |-> TRUE, pkx |-> Undefined, ciphertext |-> WordHex(1),
         receiver |-> address(PublicOnly(PublicKeyOf(1)))],
        [present |-> TRUE, pkx |-> WordHex(3), ciphertext |-> WordHex(1),
         receiver |-> address(PublicOnly(PublicKeyOf(1)))]}

ViewingKeyInputs ==
  {WordHex(k) : k \in 0..MaxKey} \cup {PublicKeyOf(1), Undefined, <<"0", "x", "z">>}

\* scalars: the small ones, those around the group order, and the largest word
ScalarInputs == (0..MaxScalar) \cup {CurveN - 1, CurveN, CurveN + 1, WordMod - 1}

\* public keys: k*G and its mirror image -(k*G) = (n-k)*G
PointInputs ==
  {PublicKeyOf(k) : k \in 1..MaxPoint} \cup {PublicKeyOf(CurveN - k) : k \in 1..MaxPoint}

\* a well-formed public key whose point is not on the curve
OffCurveKey == Ox \o EncodeUncompressed(Affine(1, 1))

KeyInputs ==
  {WordHex(k) : k \in ScalarInputs} \cup PointInputs
  \cup {OffCurveKey, Undefined, <<"0", "x", "z">>, <<"0", "x", "0", "1">>}

\* arguments of mulPublicKey / mulPrivateKey: RandomNumber objects, hex strings,
\* a string that is no hex string, and undefined
ValueInputs ==
  {RandomNumber(r) : r \in ScalarInputs} \cup {Plain(WordHex(r)) : r \in ScalarInputs}
  \cup {Plain(<<"z">>), Plain(Undefined)}

\* x coordinates: those of the public keys, one that is on no point, and undefined
XInputs ==
  {Ox \o slice(P, 4, 4 + WordChars) : P \in PointInputs} \cup {WordHex(5), Undefined}

PayloadInputs ==
  {[ephemeralPublicKey |-> P, ciphertext |-> c] :
     P \in PointInputs \cup {Undefined, <<>>}, c \in {WordHex(1), Undefined, <<>>}}

RECURSIVE Run(_, _)
Run(c, k) == IF k <= 0 THEN <<>> ELSE <<c>> \o Run(c, k - 1)

\* arguments of padHex: runs of hex digits without a prefix, up to MaxPadLen
\* characters, the same with a 0x prefix, and a string that is no hex
PadInputs ==
  {h \in {Run(c, i) \o Run(d, j) : c \in {"0", "a"}, d \in {"1", "f"},
                                   i \in 0..MaxPadLen, j \in 0..MaxPadLen} :
     Len(h) <= MaxPadLen}
  \cup {Ox \o Run("a", i) : i \in 0..MaxPadLen} \cup {<<"g">>, <<"0", "z">>}

SigPrefixes == {Ox, <<"1", "x">>, <<>>}
SigChars == {"1", "a", "g"}

\* signatures: a prefix, then a run of one character and a run of another, of up
\* to MaxSigBody characters together; and undefined
SignatureInputs ==
  {p \o Run(c, i) \o Run(d, j) :
     p \in SigPrefixes, c \in SigChars, d \in SigChars,
     i \in 0..MaxSigBody, j \in 0..MaxSigBody}

(***************************************************************************)
(* Spec: the protocol calls against the registry contract                  *)
(***************************************************************************)
Init ==
  /\ chain = [a \in Identities |-> NoKeys]
  /\ calls = [c \in Calls |-> IdleCall]
  /\ kp = NoKeyPair
  /\ op = [name |-> "init"]
  /\ res = Throw("none")

\* an account stores the compressed forms setSmartStealthKeys returns for its
\* spending key ks*G and viewing key kv*G; kv = 0 leaves the viewing key zero
Register(a, ks, kv) ==
  LET out == setSmartStealthKeys(PublicKeyOf(ks), PublicKeyOf(IF kv = 0 THEN 1 ELSE kv))
  IN  /\ chain' = [chain EXCEPT ![a] =
                     [spendingPubKeyPrefix |-> out.spendingPrefix,
                      spendingPubKey |-> HexVal(sliceFrom(out.spendingPubKeyX, 2)),
                      viewingPubKeyPrefix |-> IF kv = 0 THEN 0 ELSE out.viewingPrefix,
                      viewingPubKey |-> IF kv = 0 THEN 0
                                        ELSE HexVal(sliceFrom(out.viewingPubKeyX, 2))]]
      /\ chain'[a] # chain[a]
      /\ UNCHANGED <<calls, kp, op, res>>

\* prepareSend up to its await of getStealthKeys
PrepareSendStart(c, recipientId) ==
  /\ calls[c].pc = "idle"
  /\ calls' = [calls EXCEPT ![c] =
                 [IdleCall EXCEPT !.kind = "prepareSend", !.pc = "awaitKeys",
                                  !.account = recipientId,
                                  !.keys = chain[recipientId],
                                  !.registry = StealthKeyRegistryNew,
                                  !.awaited = prepareSendLookup(chain[recipientId])]]
  /\ UNCHANGED <<chain, kp, op, res>>

\* prepareSend from the await on
PrepareSendResume(c) ==
  /\ calls[c].kind = "prepareSend"
  /\ calls[c].pc = "awaitKeys"
  /\ \E r \in RandInputs, e \in 1..MaxEph :
       calls' = [calls EXCEPT ![c].pc = "done",
                              ![c].draws = <<r, e>>,
                              ![c].result = prepareSendDerive(calls[c].awaited, r, e)]
  /\ UNCHANGED <<chain, kp, op, res>>

\* the getNetwork().then callback of a call's registry object
NetworkCallback(c) ==
  /\ calls[c].registry.pending
  /\ \E hasId \in BOOLEAN :
       calls' = [calls EXCEPT ![c].registry = NetworkResolved(calls[c].registry, hasId)]
  /\ UNCHANGED <<chain, kp, op, res>>

\* IsUsersFunds up to its await of viewkey.decrypt, or to its end when an
\* earlier statement raises
IsUsersFundsStart(c, announcement, viewingPrivateKey, sender) ==
  /\ calls[c].pc = "idle"
  /\ LET vk == IsUsersFundsViewKey(announcement, viewingPrivateKey)
         call == [IdleCall EXCEPT !.kind = "IsUsersFunds", !.account = sender,
                                  !.announcement = announcement,
                                  !.viewingPrivateKey = viewingPrivateKey]
     IN  calls' = [calls EXCEPT ![c] =
                     IF vk.ok
                     THEN [call EXCEPT !.pc = "awaitDecrypt",
                                       !.awaited = decrypt(vk.viewkey, vk.payload)]
                     ELSE [call EXCEPT !.pc = "done", !.result = IsUsersFundsCatch(vk)]]
  /\ UNCHANGED <<chain, kp, op, res>>

\* IsUsersFunds from an await on: after decrypt the registry lookup, after the
\* lookup the comparison
IsUsersFundsResume(c) ==
  /\ calls[c].kind = "IsUsersFunds"
  /\ calls[c].pc \in {"awaitDecrypt", "awaitKeys"}
  /\ LET call == calls[c]
     IN  calls' = [calls EXCEPT ![c] =
           IF ~call.awaited.ok
           THEN [call EXCEPT !.pc = "done", !.result = IsUsersFundsCatch(call.awaited)]
           ELSE IF call.pc = "awaitDecrypt"
           THEN [call EXCEPT !.pc = "awaitKeys",
                             !.randomNumber = call.awaited.str,
                             !.registry = StealthKeyRegistryNew,
                             !.keys = chain[call.account],
                             !.awaited = IsUsersFundsLookup(chain[call.account])]
           ELSE [call EXCEPT !.pc = "done",
                             !.result = IsUsersFundsCatch(
                                IsUsersFundsResult(call.announcement, call.randomNumber,
                                                   call.awaited))]]
  /\ UNCHANGED <<chain, kp, op, res>>

\* the caller takes the result of a completed call, which frees its slot
Release(c) ==
  /\ calls[c].pc = "done"
  /\ calls' = [calls EXCEPT ![c] = IdleCall]
  /\ UNCHANGED <<chain, kp, op, res>>

\* a caller scans an announcement with a viewing key and a sender account
Scan(c) ==
  /\ calls[c].pc = "idle"
  /\ \E ann \in AnnouncementInputs, vk \in ViewingKeyInputs, a \in Identities :
       IsUsersFundsStart(c, ann, vk, a)

Next ==
  \/ \E a \in Identities, ks \in 1..MaxKey, kv \in 0..MaxKey : Register(a, ks, kv)
  \/ \E c \in Calls, a \in Identities : PrepareSendStart(c, a)
  \/ \E c \in Calls : PrepareSendResume(c)
  \/ \E c \in Calls : NetworkCallback(c)
  \/ \E c \in Calls : Scan(c)
  \/ \E c \in Calls : IsUsersFundsResume(c)
  \/ \E c \in Calls : Release(c)

Spec == Init /\ [][Next]_vars

(***************************************************************************)
(* Claims on the protocol calls (Spec)                                     *)
(***************************************************************************)
\* the call scans an announcement made for the keys now stored for account a, with
\* the private key of a's stored viewing key
MatchesFor(call, a) ==
  /\ Registered(chain[a])
  /\ \E k \in 1..MaxKey, r \in RandInputs, e \in AnnouncedEph :
       /\ call.viewingPrivateKey = WordHex(k)
       /\ getUncompressedFromX(toHexString(chain[a].viewingPubKey),
                               chain[a].viewingPubKeyPrefix) = OkStr(PublicKeyOf(k))
       /\ call.announcement = RefAnnouncement(chain[a], r, e)

Scanned(c) == calls[c].kind = "IsUsersFunds" /\ calls[c].pc = "done"

\* C1: once an account's spending and viewing keys are in the registry, scanning
\* the announcement made for those keys with the account's viewing private key
\* ends with isForUser = TRUE and the announced stealth address.
C1_EndToEndMatch ==
  \A c \in Calls, a \in Identities :
    Scanned(c) /\ MatchesFor(calls[c], a)
      => /\ calls[c].result.ok
         /\ calls[c].result.isForUser = TRUE
         /\ calls[c].result.stealthAddress = calls[c].announcement.receiver

\* C1: a completed scan of a matching announcement, the recipient given as sender
C1_MatchingScanDone ==
  \E c \in Calls, a \in Identities :
    Scanned(c) /\ MatchesFor(calls[c], a) /\ calls[c].account = a

\* C2: IsUsersFunds never raises: every completed call returned a result, and
\* isForUser is FALSE whenever the scan is not one of a matching announcement
\* with the matching viewing key (missing or malformed announcement, wrong or
\* malformed viewing key, unregistered sender, failing registry).
C2_ScanNeverRaises ==
  \A c \in Calls :
    Scanned(c)
      => /\ calls[c].result.ok
         /\ (\A a \in Identities : ~MatchesFor(calls[c], a))
              => calls[c].result.isForUser = FALSE

\* C2: completed scans of a missing announcement and of a malformed viewing key
\* both ended with isForUser = FALSE
C2_MalformedScanDone ==
  \E c \in Calls :
    /\ Scanned(c)
    /\ ~calls[c].announcement.present \/ ~isHexString(calls[c].viewingPrivateKey)
    /\ calls[c].result.ok
    /\ calls[c].result.isForUser = FALSE

\* the call scans, with the private key of a's stored viewing key, an announcement
\* made for a's stored keys whose ciphertext was then replaced
TamperedFor(call, a) ==
  /\ Registered(chain[a])
  /\ \E k \in 1..MaxKey, r \in RandInputs, e \in AnnouncedEph :
       /\ call.viewingPrivateKey = WordHex(k)
       /\ getUncompressedFromX(toHexString(chain[a].viewingPubKey),
                               chain[a].viewingPubKeyPrefix) = OkStr(PublicKeyOf(k))
       /\ call.announcement = Tampered(RefAnnouncement(chain[a], r, e))

Prepared(c) == calls[c].kind = "prepareSend" /\ calls[c].pc = "done"

\* C7: prepareSend fails with the not-registered error whenever the registry held
\* a zero spending or viewing key for the recipient, and returns a stealth key
\* pair only when both keys were registered.
C7_RegistrationGating ==
  \A c \in Calls :
    Prepared(c)
      => /\ ~Registered(calls[c].keys) => calls[c].result = Throw(ErrNotRegistered)
         /\ calls[c].result.ok => Registered(calls[c].keys)

\* C7: a completed prepareSend for a recipient whose viewing key is zero
C7_UnregisteredPrepared ==
  \E c \in Calls :
    /\ Prepared(c)
    /\ calls[c].keys.spendingPubKey # 0
    /\ calls[c].keys.viewingPubKey = 0

\* C16: whenever prepareSend or IsUsersFunds has called getStealthKeys, the
\* handle _registry of the registry object was assigned before the read:
\* getStealthKeys did not run on an unset handle, so the outcome the call awaits
\* is not the TypeError of reading a member of undefined.
C16_RegistryAssignedBeforeUse ==
  \A c \in Calls :
    calls[c].pc = "awaitKeys" => calls[c].awaited # Throw(TypeError)

\* C16: a prepareSend suspended at its await of getStealthKeys, the network
\* callback of its registry object not yet run
C16_LookupBeforeCallback ==
  \E c \in Calls :
    /\ calls[c].kind = "prepareSend"
    /\ calls[c].pc = "awaitKeys"
    /\ calls[c].registry = StealthKeyRegistryNew

(***************************************************************************)
(* SpecConcurrent: two calls in flight at once against one account of the  *)
(* registry contract.  Every call runs the steps of Spec; the calls are    *)
(* interleaved at their awaits, with each other, with the network          *)
(* callbacks of their registry objects and with registrations.             *)
(***************************************************************************)
ConcurrentCalls == {"c1", "c2"}
ConcurrentAccounts == {"A"}
ConcurrentKeys == {1}

InitConcurrent ==
  /\ chain = [a \in Identities |-> NoKeys]
  /\ calls = [c \in ConcurrentCalls |-> IdleCall]
  /\ kp = NoKeyPair
  /\ op = [name |-> "init"]
  /\ res = Throw("none")

\* a caller scans an announcement made for the stored keys, or a missing one,
\* with a private or a public viewing key
ConcurrentScan(c) ==
  /\ calls[c].pc = "idle"
  /\ \E ann \in MadeAnnouncements \cup {NoAnnouncement},
        vk \in {WordHex(1), PublicKeyOf(1)}, a \in ConcurrentAccounts :
       IsUsersFundsStart(c, ann, vk, a)

NextConcurrent ==
  \/ \E a \in ConcurrentAccounts, ks \in ConcurrentKeys, kv \in {0} \cup ConcurrentKeys :
       Register(a, ks, kv)
  \/ \E c \in ConcurrentCalls, a \in ConcurrentAccounts : PrepareSendStart(c, a)
  \/ \E c \in ConcurrentCalls : PrepareSendResume(c)
  \/ \E c \in ConcurrentCalls : NetworkCallback(c)
  \/ \E c \in ConcurrentCalls : ConcurrentScan(c)
  \/ \E c \in ConcurrentCalls : IsUsersFundsResume(c)
  \/ \E c \in ConcurrentCalls : Release(c)

SpecConcurrent == InitConcurrent /\ [][NextConcurrent]_vars

\* C14: whatever the interleaving, the result of every completed call is the
\* result of the same call run alone on the registry contents it read, with
\* the random draws it made: no call's result depends on another call in
\* flight.
C14_IndependentCalls ==
  \A c \in ConcurrentCalls :
    /\ Prepared(c)
         => calls[c].result
              = prepareSend(calls[c].keys, calls[c].draws[1], calls[c].draws[2])
    /\ Scanned(c)
         => calls[c].result
              = IsUsersFunds(calls[c].announcement, calls[c].viewingPrivateKey,
                             calls[c].keys)

\* C14: a prepareSend completed while the other call was suspended at its
\* await, the registry object of that call already holding its handle
C14_CompletedBesideInFlight ==
  \E c \in ConcurrentCalls, d \in ConcurrentCalls :
    /\ c # d
    /\ Prepared(c)
    /\ calls[d].kind = "prepareSend"
    /\ calls[d].pc = "awaitKeys"
    /\ calls[d].registry.assigned

(***************************************************************************)
(* SpecRegistry: a StealthKeyRegistry object, from its construction on,    *)
(* against one account of the registry contract, and compressPublicKey on  *)
(* the points of the curve.                                                *)
(***************************************************************************)
RegistryAccounts == {"A"}

\* the scalars of the keys registered: both parities of y occur
RegistryScalars == (1..MaxPoint) \cup {CurveN - k : k \in 1..MaxPoint}

\* the 65-byte encodings of the points of the curve
CurvePoints == {PublicKeyOf(k) : k \in 1..(CurveN - 1)}

\* the operation at hand is drawn first: compressPublicKey of a key, or a read
\* of an account through a registry object, which registrations, the object's
\* construction and its network callback precede
InitRegistry ==
  /\ chain = [a \in Identities |-> NoKeys]
  /\ calls = [c \in Calls |-> IdleCall]
  /\ kp = NoKeyPair
  /\ res = Throw("none")
  /\ \/ \E P \in CurvePoints \cup {OffCurveKey} :
          op = [name |-> "compressPublicKey", done |-> FALSE, key |-> P]
     \/ \E a \in RegistryAccounts :
          op = [name |-> "getStealthKeys", done |-> FALSE, account |-> a,
                assigned |-> FALSE, keys |-> NoKeys]

\* an account stores the values setSmartStealthKeys returns for its keys
RegistryRegister(a, ks, kv) ==
  /\ Pending("getStealthKeys")
  /\ Register(a, ks, kv)

\* new StealthKeyRegistry(signerOrProvider)
RegistryNew(c) ==
  /\ Pending("getStealthKeys")
  /\ calls[c].pc = "idle"
  /\ calls' = [calls EXCEPT ![c] =
                 [IdleCall EXCEPT !.kind = "registry", !.pc = "constructed",
                                  !.registry = StealthKeyRegistryNew]]
  /\ UNCHANGED <<chain, kp, op, res>>

\* registry.getStealthKeys(account) on the object constructed; op keeps whether
\* the handle was assigned and what the contract answered
GetStealthKeys(c) ==
  /\ Pending("getStealthKeys")
  /\ calls[c].kind = "registry"
  /\ op' = [op EXCEPT !.done = TRUE, !.assigned = calls[c].registry.assigned,
                      !.keys = chain[op.account]]
  /\ res' = getStealthKeys(calls[c].registry, chain[op.account])
  /\ UNCHANGED <<chain, calls, kp>>

\* KeyPair.compressPublicKey(uncompressedpublicKey)
CompressPublicKey ==
  /\ Pending("compressPublicKey")
  /\ op' = [op EXCEPT !.done = TRUE]
  /\ res' = compressPublicKey(op.key)
  /\ UNCHANGED <<chain, calls, kp>>

NextRegistry ==
  \/ \E a \in RegistryAccounts, ks \in RegistryScalars, kv \in {0} \cup RegistryScalars :
       RegistryRegister(a, ks, kv)
  \/ \E c \in Calls : RegistryNew(c)
  \/ \E c \in Calls : NetworkCallback(c)
  \/ \E c \in Calls : GetStealthKeys(c)
  \/ CompressPublicKey

SpecRegistry == InitRegistry /\ [][NextRegistry]_vars

\* what the contract stores of the values setSmartStealthKeys returns
StoredKeys(out) ==
  [spendingPubKeyPrefix |-> out.spendingPrefix,
   spendingPubKey |-> HexVal(sliceFrom(out.spendingPubKeyX, 2)),
   viewingPubKeyPrefix |-> out.viewingPrefix,
   viewingPubKey |-> HexVal(sliceFrom(out.viewingPubKeyX, 2))]

\* C15: for every point P of the curve in uncompressed form, compressPublicKey
\* returns a prefix 2 or 3 and the x of P, and getUncompressedFromX of that x
\* and prefix returns P; and getStealthKeys, reading the stored values that
\* setSmartStealthKeys returned for a spending and a viewing key, returns
\* those two keys unchanged.
C15_CompressionRoundTrip ==
  /\ Applied("compressPublicKey") /\ op.key \in CurvePoints
       => /\ res.ok
          /\ res.prefix \in {2, 3}
          /\ res.pubKeyXCoordinate = Ox \o slice(op.key, 4, 4 + WordChars)
          /\ getUncompressedFromX(res.pubKeyXCoordinate, res.prefix) = OkStr(op.key)
  /\ Applied("getStealthKeys") /\ op.assigned
       => \A P \in PointInputs, Q \in PointInputs :
            op.keys = StoredKeys(setSmartStealthKeys(P, Q))
              => res = [ok |-> TRUE, spendingPublicKey |-> P, viewingPublicKey |-> Q]

\* C15: getStealthKeys has read, through an assigned handle, stored keys whose
\* spending key has an odd y (prefix 3) and whose viewing key has an even y
C15_StoredKeysRead ==
  /\ Applied("getStealthKeys")
  /\ op.assigned
  /\ op.keys.spendingPubKeyPrefix = 3
  /\ op.keys.viewingPubKeyPrefix = 2
  /\ res.ok

(***************************************************************************)
(* SpecKeyPair: the operations of classes/KeyPair.js.  The initial state   *)
(* holds an instance the constructor returned and one pending operation    *)
(* with its arguments; each action applies the operation it is named for.  *)
(***************************************************************************)
\* the instances new KeyPair(key) returns over the key inputs
Instances == {KeyPairNew(key).kp : key \in {k \in KeyInputs : KeyPairNew(k).ok}}

InitKeyPair ==
  /\ chain = [a \in Identities |-> NoKeys]
  /\ calls = [c \in Calls |-> IdleCall]
  /\ kp \in Instances
  /\ res = Throw("none")
  /\ \/ \E key \in KeyInputs : op = [name |-> "new", done |-> FALSE, key |-> key]
     \/ \E name \in {"mulPublicKey", "mulPrivateKey"}, value \in ValueInputs :
          op = [name |-> name, done |-> FALSE, value |-> value]
     \/ \E r \in RandInputs, e \in 1..MaxEph :
          op = [name |-> "encrypt", done |-> FALSE, r |-> r, e |-> e]
     \/ \E output \in PayloadInputs :
          op = [name |-> "decrypt", done |-> FALSE, output |-> output]
     \/ \E k \in ScalarInputs, P \in PointInputs \cup {OffCurveKey} :
          op = [name |-> "getSharedSecret", done |-> FALSE,
                privateKey |-> WordHex(k), publicKey |-> P]
     \/ \E k \in ScalarInputs, x \in XInputs, prefix \in {0, 2, 3} :
          op = [name |-> "sharedSecretFromX", done |-> FALSE,
                privateKey |-> WordHex(k), pkx |-> x, prefix |-> prefix]
     \/ \E k \in ScalarInputs, r \in RandInputs, e \in 1..MaxEph :
          op = [name |-> "roundTrip", done |-> FALSE, k |-> k, r |-> r, e |-> e]
     \/ \E s \in ScalarInputs, r \in ScalarInputs :
          op = [name |-> "ownership", done |-> FALSE, s |-> s, r |-> r]
     \/ \E k \in ScalarInputs, value \in ValueInputs :
          op = [name |-> "computeStealthPrivateKey", done |-> FALSE,
                key |-> WordHex(k), value |-> value]
     \/ \E hex \in PadInputs, bytes \in 1..WordBytes :
          op = [name |-> "padHex", done |-> FALSE, hex |-> hex, bytes |-> bytes]

\* new KeyPair(key); the instance at hand is replaced when the constructor returns
KPNew ==
  /\ Pending("new")
  /\ op' = [op EXCEPT !.done = TRUE]
  /\ res' = KeyPairNew(op.key)
  /\ kp' = IF res'.ok THEN res'.kp ELSE kp
  /\ UNCHANGED <<chain, calls>>

\* kp.mulPublicKey(value)
KPMulPublicKey ==
  /\ Pending("mulPublicKey")
  /\ op' = [op EXCEPT !.done = TRUE]
  /\ res' = mulPublicKey(kp, op.value)
  /\ UNCHANGED <<chain, calls, kp>>

\* kp.mulPrivateKey(value)
KPMulPrivateKey ==
  /\ Pending("mulPrivateKey")
  /\ op' = [op EXCEPT !.done = TRUE]
  /\ res' = mulPrivateKey(kp, op.value)
  /\ UNCHANGED <<chain, calls, kp>>

\* kp.encrypt(new RandomNumber(r)), the ephemeral scalar drawn being e
KPEncrypt ==
  /\ Pending("encrypt")
  /\ op' = [op EXCEPT !.done = TRUE]
  /\ res' = encrypt(kp, RandomNumber(op.r), op.e)
  /\ UNCHANGED <<chain, calls, kp>>

\* kp.decrypt(output)
KPDecrypt ==
  /\ Pending("decrypt")
  /\ op' = [op EXCEPT !.done = TRUE]
  /\ res' = decrypt(kp, op.output)
  /\ UNCHANGED <<chain, calls, kp>>

\* kp.getSharedSecret(privateKey, publicKey)
KPGetSharedSecret ==
  /\ Pending("getSharedSecret")
  /\ op' = [op EXCEPT !.done = TRUE]
  /\ res' = getSharedSecret(op.privateKey, op.publicKey)
  /\ UNCHANGED <<chain, calls, kp>>

\* the key decrypt derives when the ephemeral key is rebuilt from its x coordinate:
\* kp.getSharedSecret(privateKey, KeyPair.getUncompressedFromX(pkx, prefix))
SharedSecretFromX(privateKey, pkx, prefix) ==
  Then(getUncompressedFromX(pkx, prefix),
       LAMBDA publicKey : getSharedSecret(privateKey, publicKey.str))

KPSharedSecretFromX ==
  /\ Pending("sharedSecretFromX")
  /\ op' = [op EXCEPT !.done = TRUE]
  /\ res' = SharedSecretFromX(op.privateKey, op.pkx, op.prefix)
  /\ UNCHANGED <<chain, calls, kp>>

\* K = new KeyPair(k); K.decrypt(K.encrypt(new RandomNumber(r)))
RoundTrip(k, r, e) ==
  Then(KeyPairNew(WordHex(k)), LAMBDA K :
  Then(encrypt(K.kp, RandomNumber(r), e), LAMBDA output :
  decrypt(K.kp, [ephemeralPublicKey |-> output.ephemeralPublicKey,
                 ciphertext |-> output.ciphertext])))

KPRoundTrip ==
  /\ Pending("roundTrip")
  /\ op' = [op EXCEPT !.done = TRUE]
  /\ res' = RoundTrip(op.k, op.r, op.e)
  /\ UNCHANGED <<chain, calls, kp>>

\* K = new KeyPair(s); K.mulPublicKey(r).address and K.mulPrivateKey(r).address
Ownership(s, r) ==
  Then(KeyPairNew(WordHex(s)), LAMBDA K :
  Then(mulPublicKey(K.kp, RandomNumber(r)), LAMBDA viaPublic :
  Then(mulPrivateKey(K.kp, RandomNumber(r)), LAMBDA viaPrivate :
  [ok |-> TRUE, viaPublic |-> address(viaPublic.kp),
   viaPrivate |-> address(viaPrivate.kp)])))

KPOwnership ==
  /\ Pending("ownership")
  /\ op' = [op EXCEPT !.done = TRUE]
  /\ res' = Ownership(op.s, op.r)
  /\ UNCHANGED <<chain, calls, kp>>

\* KeyPair.computeStealthPrivateKey(spendingPrivateKey, randomNumber)
KPComputeStealthPrivateKey ==
  /\ Pending("computeStealthPrivateKey")
  /\ op' = [op EXCEPT !.done = TRUE]
  /\ res' = computeStealthPrivateKey(op.key, op.value)
  /\ UNCHANGED <<chain, calls, kp>>

\* padHex(hex, bytes)
PadHex ==
  /\ Pending("padHex")
  /\ op' = [op EXCEPT !.done = TRUE]
  /\ res' = padHex(op.hex, op.bytes)
  /\ UNCHANGED <<chain, calls, kp>>

NextKeyPair ==
  \/ KPNew
  \/ KPMulPublicKey
  \/ KPMulPrivateKey
  \/ KPEncrypt
  \/ KPDecrypt
  \/ KPGetSharedSecret
  \/ KPSharedSecretFromX
  \/ KPRoundTrip
  \/ KPOwnership
  \/ KPComputeStealthPrivateKey
  \/ PadHex

SpecKeyPair == InitKeyPair /\ [][NextKeyPair]_vars

(***************************************************************************)
(* Claims on KeyPair (SpecKeyPair)                                         *)
(***************************************************************************)
ValidScalars == 1..(CurveN - 1)

\* C3: for a KeyPair built from a private scalar and a RandomNumber r,
\* decrypt(encrypt(r)) is r zero-padded to a word, whatever ephemeral scalar
\* encrypt drew.
C3_RoundTrip ==
  Applied("roundTrip") /\ op.k \in ValidScalars => res = OkStr(WordHex(op.r))

\* C3: a round trip was run on a scalar of the valid range
C3_RoundTripRun == Applied("roundTrip") /\ op.k \in ValidScalars

\* C4: for a private scalar s and any scalar r, KeyPair(s).mulPublicKey(r) and
\* KeyPair(s).mulPrivateKey(r) both return a KeyPair, and the two addresses agree.
C4_OwnershipAlgebra ==
  Applied("ownership") /\ op.s \in ValidScalars
    => res.ok /\ res.viaPublic = res.viaPrivate

\* C4: the two derivations were run on a valid s and an r above the group order
C4_OwnershipRun == Applied("ownership") /\ op.s \in ValidScalars /\ op.r > CurveN

\* C5: the shared secret does not depend on the sign of the public point: for a
\* scalar of the valid range and a point of the curve, getSharedSecret gives the
\* same value for the point and for its mirror image, and the same value for the
\* key rebuilt from the x coordinate under the default prefix, prefix 2 and
\* prefix 3.
C5_PrefixIndependent ==
  /\ /\ Applied("getSharedSecret")
     /\ HexVal(sliceFrom(op.privateKey, 2)) \in ValidScalars
     /\ OnCurve(PointOfHex(sliceFrom(op.publicKey, 2)))
     => /\ res.ok
        /\ res = getSharedSecret(op.privateKey,
                   Ox \o EncodeUncompressed(PointNeg(PointOfHex(sliceFrom(op.publicKey, 2)))))
  /\ /\ Applied("sharedSecretFromX")
     /\ HexVal(sliceFrom(op.privateKey, 2)) \in ValidScalars
     /\ getUncompressedFromX(op.pkx, op.prefix).ok
     => /\ res.ok
        /\ res = SharedSecretFromX(op.privateKey, op.pkx, 0)
        /\ res = SharedSecretFromX(op.privateKey, op.pkx, 2)
        /\ res = SharedSecretFromX(op.privateKey, op.pkx, 3)

\* C5: a shared secret was computed from a point with an odd y, which the
\* default prefix would rebuild with an even y
C5_OddPointSecret ==
  /\ Applied("getSharedSecret")
  /\ res.ok
  /\ PointOfHex(sliceFrom(op.publicKey, 2)).y % 2 = 1

\* C8: the constructor accepts a private scalar only in [1, n-1]; for 0 and for
\* every scalar >= n it fails with one of its key errors.
C8_ScalarRange ==
  Applied("new") /\ isHexString(op.key) /\ Len(op.key) = lengths_privateKey
    => /\ res.ok => HexVal(sliceFrom(op.key, 2)) \in ValidScalars
       /\ HexVal(sliceFrom(op.key, 2)) \notin ValidScalars
            => ~res.ok /\ res.err \in {ErrKeyFormat, ErrKeyLength, ErrInvalidPrivateKey}

\* C8: the constructor was run on the scalar n
C8_OrderScalarRun == Applied("new") /\ op.key = WordHex(CurveN)

\* C12: for a string of hex digits without a 0x prefix, padHex(hex, n) returns
\* the digits left-padded with zeros, a string of exactly 2n characters.
C12_PaddingExactness ==
  Applied("padHex") /\ AllHex(op.hex) /\ Len(op.hex) >= 1
    => /\ res = OkStr(Zeros(2 * op.bytes - Len(op.hex)) \o op.hex)
       /\ Len(res.str) = 2 * op.bytes

\* C12: padHex was applied to hex digits shorter than the requested length
C12_ShortHexPadded ==
  /\ Applied("padHex")
  /\ AllHex(op.hex)
  /\ Len(op.hex) \in 1..(2 * op.bytes - 1)

\* a KeyPair that holds a private key holds the public key privateKey * G
KeyPairInvariant(K) ==
  K.privateKeyHex # Undefined
    => K.publicKeyHex = PublicKeyOf(HexVal(sliceFrom(K.privateKeyHex, 2)))

\* C9: every KeyPair the constructor, mulPublicKey or mulPrivateKey returns holds
\* the public key of its private key if it holds one, and a KeyPair built from a
\* public key or returned by mulPublicKey holds no private key.
C9_KeyPairInvariant ==
  /\ KeyPairInvariant(kp)
  /\ op.done /\ op.name \in {"new", "mulPublicKey", "mulPrivateKey"} /\ res.ok
       => KeyPairInvariant(res.kp)
  /\ Applied("new") /\ Len(op.key) = lengths_publicKey /\ res.ok
       => res.kp.privateKeyHex = Undefined
  /\ Applied("mulPublicKey") /\ res.ok => res.kp.privateKeyHex = Undefined

\* C9: the constructor returned an instance for a public key
C9_PublicInstanceBuilt ==
  /\ Applied("new")
  /\ Len(op.key) = lengths_publicKey
  /\ res.ok
  /\ kp = res.kp
  /\ kp.privateKeyHex = Undefined

\* C10: on an instance built from a public key, mulPrivateKey and decrypt fail
\* with the missing-private-key error, and decrypt fails with the payload error
\* when ephemeralPublicKey or ciphertext is absent.
C10_PublicOnlyOperations ==
  /\ /\ Applied("mulPrivateKey")
     /\ kp.privateKeyHex = Undefined
     /\ op.value.rn \/ isHexString(op.value.hex)
     => res = Throw(ErrNoPrivateKey)
  /\ /\ Applied("decrypt")
     /\ kp.privateKeyHex = Undefined
     /\ ~Falsy(op.output.ephemeralPublicKey)
     /\ ~Falsy(op.output.ciphertext)
     => res = Throw(ErrNoPrivateKey)
  /\ /\ Applied("decrypt")
     /\ Falsy(op.output.ephemeralPublicKey) \/ Falsy(op.output.ciphertext)
     => res = Throw(ErrPayload)

\* C10: mulPrivateKey was called with a RandomNumber on a public-only instance
C10_PublicOnlyMulPrivate ==
  Applied("mulPrivateKey") /\ kp.privateKeyHex = Undefined /\ op.value.rn

(***************************************************************************)
(* SpecSig: generateKeyPair over signature strings                         *)
(***************************************************************************)
InitSig ==
  /\ chain = [a \in Identities |-> NoKeys]
  /\ calls = [c \in Calls |-> IdleCall]
  /\ kp = NoKeyPair
  /\ res = Throw("none")
  /\ \E signature \in SignatureInputs \cup {Undefined} :
       op = [name |-> "generateKeyPair", done |-> FALSE, signature |-> signature]

\* generateKeyPair(signature)
GenerateKeyPair ==
  /\ Pending("generateKeyPair")
  /\ op' = [op EXCEPT !.done = TRUE]
  /\ res' = generateKeyPair(op.signature)
  /\ UNCHANGED <<chain, calls, kp>>

NextSig ==
  \/ GenerateKeyPair

SpecSig == InitSig /\ [][NextSig]_vars

(***************************************************************************)
(* Claims on generateKeyPair (SpecSig)                                     *)
(***************************************************************************)
\* 0x and the hex digits of r, s and v: the encoding of a 65-byte signature
Encodes65(signature) ==
  isHexString(signature) /\ Len(signature) = 2 + length + length + 2

Reassembled(signature) == Ox \o SigR(signature) \o SigS(signature) \o SigV(signature)

\* C6 as stated: generateKeyPair fails with the signature error on every input
\* whose reassembly differs from it and on every input that does not encode
\* exactly 65 bytes, and returns key pairs only for inputs that do.
C6_SplitIntegrity ==
  Applied("generateKeyPair") /\ IsString(op.signature)
    => /\ Reassembled(op.signature) # op.signature => res = Throw(ErrSignature)
       /\ ~Encodes65(op.signature) => res = Throw(ErrSignature)
       /\ res.ok => Encodes65(op.signature)

\* C6 amended: on a string, generateKeyPair fails with the signature error
\* exactly when the reassembly differs from the input, which is exactly when the
\* input is not 0x followed by 130 characters; the characters are not checked
\* to be hex digits by the split, and an input of that shape with a character
\* that is no hex digit in r or s fails in the hash with another error, while
\* v is not examined: whatever v is, the outcome is that of building the two
\* KeyPairs from the hashes of r and s.
C6_SplitIntegrityAmended ==
  Applied("generateKeyPair") /\ IsString(op.signature)
    => /\ res = Throw(ErrSignature) <=> Reassembled(op.signature) # op.signature
       /\ Reassembled(op.signature) # op.signature
            <=> ~(/\ Len(op.signature) = 2 + length + length + 2
                  /\ slice(op.signature, 0, 2) = Ox)
       /\ /\ Reassembled(op.signature) = op.signature
          /\ ~AllHex(SigR(op.signature) \o SigS(op.signature))
          => res = Throw(ErrEthersArgument)
       /\ /\ Reassembled(op.signature) = op.signature
          /\ AllHex(SigR(op.signature) \o SigS(op.signature))
          => res = Then(KeyPairNew(sha256(Ox \o SigR(op.signature)).str), LAMBDA spending :
                   Then(KeyPairNew(sha256(Ox \o SigS(op.signature)).str), LAMBDA viewing :
                   [ok |-> TRUE, spendingKeyPair |-> spending.kp,
                    viewingKeyPair |-> viewing.kp]))

\* C6: an input of the right shape with a character that is no hex digit went
\* past the split and failed in the hash
C6_NonHexPastSplit ==
  /\ Applied("generateKeyPair")
  /\ Len(op.signature) = 2 + length + length + 2
  /\ ~isHexString(op.signature)
  /\ res = Throw(ErrEthersArgument)

\* the valid signatures with the r and s of the given one
SameRS(signature) ==
  {other \in SignatureInputs :
     /\ Encodes65(other)
     /\ SigR(other) = SigR(signature)
     /\ SigS(other) = SigS(signature)}

\* C13: on a valid signature generateKeyPair returns the key pairs whose
\* private keys are hash(r) and hash(s), and every valid signature with the
\* same r and s, whatever its v (the same signature included), returns
\* identical key pairs.
C13_DeterministicDerivation ==
  Applied("generateKeyPair") /\ Encodes65(op.signature)
    => /\ res.ok
       /\ res.spendingKeyPair.privateKeyHex = sha256(Ox \o SigR(op.signature)).str
       /\ res.viewingKeyPair.privateKeyHex = sha256(Ox \o SigS(op.signature)).str
       /\ \A other \in SameRS(op.signature) : generateKeyPair(other) = res

\* C13: generateKeyPair was applied to a valid signature that has a twin
\* differing only in v
C13_TwinSignatureDerived ==
  /\ Applied("generateKeyPair")
  /\ Encodes65(op.signature)
  /\ \E other \in SameRS(op.signature) : SigV(other) # SigV(op.signature)
====
